---- MODULE Spec2Model ----
(***************************************************************************)
(* A model of piston-3d's Vulkan bring-up code.                            *)
(*                                                                         *)
(* Each behaviour runs one entry point of the crate on one input: Init     *)
(* picks the entry point and its arguments (together with the facts the    *)
(* driver reports for them), and the actions execute the function.         *)
(*                                                                         *)
(* Capability queries (queue families, surface support, extensions,        *)
(* formats, present modes, layers) are modelled as total facts of the      *)
(* device: the selection code unwraps them, so a failing query aborts the  *)
(* process before any selection result exists.  Calls that create, bind,   *)
(* submit or free can fail, and do so nondeterministically.                *)
(***************************************************************************)
EXTENDS Integers, Sequences, FiniteSets, TLC

VARIABLES
    entry,      \* the function being run
    pc,         \* position inside it
    args,       \* its arguments and the driver facts it reads
    locals,     \* its local variables
    live,       \* handles created and not yet destroyed
    trace,      \* creation/destruction calls made so far, in order
    result      \* what the function returned (or how it died)

vars == <<entry, pc, args, locals, live, trace, result>>

---------------------------------------------------------------------------
(* Bounds of the model *)

MaxDevices == 2         \* physical devices enumerated
MaxFamilies == 2        \* queue families of a device
MaxImageCount == 2      \* largest ordinary min/max image count
MaxImages == 2          \* images the driver hands back for a swapchain
MaxDim == 2             \* largest ordinary extent component
MaxLayers == 2          \* instance layers enumerated
MaxFormats == 2         \* surface formats advertised to select_surface_format
MaxModes == 2           \* present modes advertised to select_present_mode
U32_BITS == 4           \* width of the modelled u32

U32_MAX == 2 ^ U32_BITS - 1

---------------------------------------------------------------------------
(* Results, options, handles, events *)

Ok(v) == [kind |-> "Ok", value |-> v]
Err(e) == [kind |-> "Err", value |-> e]
Panic(m) == [kind |-> "panic", value |-> m]
NoResult == [kind |-> "running", value |-> ""]

None == [some |-> FALSE, v |-> 0]
Some(x) == [some |-> TRUE, v |-> x]

Handle(t, i) == [type |-> t, id |-> i]
H(t) == Handle(t, 0)

Created(h) == [ev |-> "create", h |-> h]
CreateFailed(h) == [ev |-> "create_failed", h |-> h]
Destroyed(h) == [ev |-> "destroy", h |-> h]

RECURSIVE EventsOf(_, _)
EventsOf(kind, t) ==
    IF t = <<>> THEN <<>>
    ELSE IF Head(t).ev = kind THEN <<Head(t).h>> \o EventsOf(kind, Tail(t))
         ELSE EventsOf(kind, Tail(t))

created == EventsOf("create", trace)
destroyed == EventsOf("destroy", trace)

Reverse(s) == [i \in 1..Len(s) |-> s[Len(s) + 1 - i]]
Range(s) == {s[i] : i \in 1..Len(s)}
Count(s, x) == Cardinality({i \in 1..Len(s) : s[i] = x})

RECURSIVE SeqsUpTo(_, _)
SeqsUpTo(S, n) ==
    IF n = 0 THEN {<<>>}
    ELSE LET shorter == SeqsUpTo(S, n - 1)
         IN shorter \cup {Append(s, x) : s \in {t \in shorter : Len(t) = n - 1}, x \in S}

---------------------------------------------------------------------------
(* util.rs: vk_to_string.  A raw Vulkan name is a fixed array of characters *)
(* holding a NUL-terminated string; here an array of tokens.  The String is *)
(* what precedes the first NUL.                                            *)

NUL == "\\0"

vk_to_string(raw_string_array) ==
    LET end == CHOOSE i \in 1..Len(raw_string_array) :
                   /\ raw_string_array[i] = NUL
                   /\ \A j \in 1..(i - 1) : raw_string_array[j] # NUL
    IN SubSeq(raw_string_array, 1, end - 1)

Str(s) == <<s>>

---------------------------------------------------------------------------
(* constants.rs *)

REQUIRED_EXTENSIONS == <<Str("VK_KHR_swapchain")>>

REQUIRED_VALIDATION_LAYERS == <<Str("VK_LAYER_KHRONOS_validation")>>

---------------------------------------------------------------------------
(* device.rs: queue families and device selection *)

QueueFamilyIndices_new == [graphics_family_index |-> None, present_family_index |-> None]

is_complete(q) == q.graphics_family_index.some /\ q.present_family_index.some

\* (mutant) families without queues are looked at like the others
RECURSIVE find_queue_family_loop_empty_families_too(_, _, _)
find_queue_family_loop_empty_families_too(queue_families, index, queue_family_indices) ==
    IF index >= Len(queue_families) THEN queue_family_indices
    ELSE LET queue_family == queue_families[index + 1]
             q1 == IF "GRAPHICS" \in queue_family.queue_flags
                   THEN [queue_family_indices EXCEPT !.graphics_family_index = Some(index)]
                   ELSE queue_family_indices
             q2 == IF queue_family.present_support
                   THEN [q1 EXCEPT !.present_family_index = Some(index)]
                   ELSE q1
         IN IF is_complete(q2) THEN q2
            ELSE find_queue_family_loop_empty_families_too(queue_families, index + 1, q2)

\* The loop of find_queue_family from family `index` (0-based) on, with the
\* indices found so far.
RECURSIVE find_queue_family_loop(_, _, _)
find_queue_family_loop(queue_families, index, queue_family_indices) ==
    IF index >= Len(queue_families) THEN queue_family_indices
    ELSE LET queue_family == queue_families[index + 1]
             q1 == IF "GRAPHICS" \in queue_family.queue_flags
                   THEN [queue_family_indices EXCEPT !.graphics_family_index = Some(index)]
                   ELSE queue_family_indices
             q2 == IF queue_family.present_support
                   THEN [q1 EXCEPT !.present_family_index = Some(index)]
                   ELSE q1
         IN IF queue_family.queue_count > 0
            THEN IF is_complete(q2) THEN q2
                 ELSE find_queue_family_loop(queue_families, index + 1, q2)
            ELSE find_queue_family_loop(queue_families, index + 1, queue_family_indices)

find_queue_family(physical_device) ==
    find_queue_family_loop(physical_device.queue_families, 0, QueueFamilyIndices_new)

check_queue_families(physical_device) == is_complete(find_queue_family(physical_device))

\* (mutant) a required name counts as available when an advertised name
\* starts with it
check_extension_support_prefix(physical_device) ==
    \A r \in 1..Len(REQUIRED_EXTENSIONS) :
        \E i \in 1..Len(physical_device.extension_properties) :
            LET name == vk_to_string(physical_device.extension_properties[i])
            IN /\ Len(name) >= Len(REQUIRED_EXTENSIONS[r])
               /\ SubSeq(name, 1, Len(REQUIRED_EXTENSIONS[r])) = REQUIRED_EXTENSIONS[r]

check_extension_support(physical_device) ==
    LET available_extension_names ==
            [i \in 1..Len(physical_device.extension_properties) |->
                vk_to_string(physical_device.extension_properties[i])]
        required_extensions == Range(REQUIRED_EXTENSIONS)
    IN (required_extensions \ Range(available_extension_names)) = {}

\* (mutant) only the present modes are looked at
check_swapchain_support_modes_only(physical_device) ==
    physical_device.present_modes # <<>>

check_swapchain_support(physical_device) ==
    ~(physical_device.formats = <<>> \/ physical_device.present_modes = <<>>)

is_suitable_physical_device(physical_device) ==
    LET queue_families_ok == check_queue_families(physical_device)
        extension_support_ok == check_extension_support(physical_device)
        swapchain_support_ok ==
            extension_support_ok /\ check_swapchain_support(physical_device)
    IN queue_families_ok /\ extension_support_ok /\ swapchain_support_ok

\* (mutant) the last suitable device instead of the first
RECURSIVE select_last_suitable(_, _)
select_last_suitable(physical_devices, i) ==
    IF i < 1 THEN Err("No suitable supported device found")
    ELSE IF is_suitable_physical_device(physical_devices[i]) THEN Ok(i)
         ELSE select_last_suitable(physical_devices, i - 1)

select_physical_device_last(physical_devices) ==
    select_last_suitable(physical_devices, Len(physical_devices))

\* The loop of select_physical_device from position i on.  A physical device
\* handle is its position in the enumeration.
RECURSIVE select_physical_device_loop(_, _)
select_physical_device_loop(physical_devices, i) ==
    IF i > Len(physical_devices) THEN Err("No suitable supported device found")
    ELSE IF is_suitable_physical_device(physical_devices[i]) THEN Ok(i)
         ELSE select_physical_device_loop(physical_devices, i + 1)

select_physical_device(physical_devices) == select_physical_device_loop(physical_devices, 1)

---------------------------------------------------------------------------
(* u32 arithmetic.  A debug build checks overflow and debug assertions,    *)
(* a release build wraps and skips them.                                   *)

add_u32(a, b, debug_build) ==
    IF a + b > U32_MAX
    THEN IF debug_build THEN Panic("attempt to add with overflow")
         ELSE Ok((a + b) % (2 ^ U32_BITS))
    ELSE Ok(a + b)

min_u32(a, b) == IF a <= b THEN a ELSE b

\* num_traits::clamp(input, min, max)
clamp(input, min, max, debug_build) ==
    IF debug_build /\ ~(min <= max)
    THEN Panic("min must be less than or equal to max")
    ELSE Ok(IF input < min THEN min ELSE IF input > max THEN max ELSE input)

---------------------------------------------------------------------------
(* swapchain.rs: the negotiation policies *)

PreferredFormat == [format |-> "B8G8R8_SRGB", color_space |-> "SRGB_NONLINEAR"]

RECURSIVE select_surface_format_loop(_, _)
select_surface_format_loop(available_formats, i) ==
    IF i > Len(available_formats)
    THEN IF available_formats = <<>>
         THEN Panic("called Option::unwrap() on a None value")
         ELSE Ok(Head(available_formats))
    ELSE IF /\ available_formats[i].format = "B8G8R8_SRGB"
            /\ available_formats[i].color_space = "SRGB_NONLINEAR"
         THEN Ok(available_formats[i])
         ELSE select_surface_format_loop(available_formats, i + 1)

select_surface_format_any_color_space(available_formats) ==
    LET hits == {i \in 1..Len(available_formats) :
                    available_formats[i].format = "B8G8R8_SRGB"}
    IN IF available_formats = <<>>
       THEN Panic("called Option::unwrap() on a None value")
       ELSE IF hits = {}
            THEN Ok(Head(available_formats))
            ELSE Ok(available_formats[CHOOSE i \in hits : \A j \in hits : i <= j])

select_surface_format(available_formats) == select_surface_format_loop(available_formats, 1)

RECURSIVE select_present_mode_loop(_, _)
select_present_mode_loop(present_modes, i) ==
    IF i > Len(present_modes) THEN "FIFO"
    ELSE IF present_modes[i] = "MAILBOX" THEN present_modes[i]
         ELSE select_present_mode_loop(present_modes, i + 1)

select_present_mode_first_only(present_modes) ==
    IF present_modes # <<>> /\ Head(present_modes) = "MAILBOX" THEN "MAILBOX" ELSE "FIFO"

\* (mutant) the fallback is IMMEDIATE
select_present_mode_fallback_immediate(present_modes) ==
    IF "MAILBOX" \in Range(present_modes) THEN "MAILBOX" ELSE "IMMEDIATE"

select_present_mode(present_modes) == select_present_mode_loop(present_modes, 1)

select_swapchain_extent(capabilities, window, debug_build) ==
    IF capabilities.current_extent.width # U32_MAX
    THEN Ok(capabilities.current_extent)
    ELSE LET width == clamp(window.width,
                            capabilities.current_extent.width,
                            capabilities.current_extent.height,
                            debug_build)
             height == clamp(window.height,
                             capabilities.current_extent.height,
                             capabilities.current_extent.height,
                             debug_build)
         IN IF width.kind = "panic" THEN width
            ELSE IF height.kind = "panic" THEN height
            ELSE Ok([width |-> width.value, height |-> height.value])

\* create_swapchain_entities, the image count handed to the driver
swapchain_image_count(capabilities, debug_build) ==
    LET image_count == add_u32(capabilities.min_image_count, 1, debug_build)
    IN IF image_count.kind = "panic" THEN image_count
       ELSE IF capabilities.max_image_count > 1
            THEN Ok(min_u32(image_count.value, capabilities.max_image_count))
            ELSE image_count

\* (mutant) the family list in the order present, graphics
swapchain_sharing_swapped(queue_family_indices) ==
    IF queue_family_indices.graphics_family_index # queue_family_indices.present_family_index
    THEN IF ~queue_family_indices.graphics_family_index.some
            \/ ~queue_family_indices.present_family_index.some
         THEN Panic("called Option::unwrap() on a None value")
         ELSE Ok([image_sharing_mode |-> "CONCURRENT",
                  queue_family_indices |->
                      <<queue_family_indices.present_family_index.v,
                        queue_family_indices.graphics_family_index.v>>])
    ELSE Ok([image_sharing_mode |-> "EXCLUSIVE", queue_family_indices |-> <<>>])

\* create_swapchain_entities, the sharing mode and the family list
swapchain_sharing(queue_family_indices) ==
    IF queue_family_indices.graphics_family_index # queue_family_indices.present_family_index
    THEN IF ~queue_family_indices.graphics_family_index.some
            \/ ~queue_family_indices.present_family_index.some
         THEN Panic("called Option::unwrap() on a None value")
         ELSE Ok([image_sharing_mode |-> "CONCURRENT",
                  queue_family_indices |->
                      <<queue_family_indices.graphics_family_index.v,
                        queue_family_indices.present_family_index.v>>])
    ELSE Ok([image_sharing_mode |-> "EXCLUSIVE", queue_family_indices |-> <<>>])

\* (mutant) the sharing mode is left at the builder's default
swapchain_create_info_default_sharing(details, queue_family_indices, window, debug_build) ==
    LET surface_format == select_surface_format(details.formats)
        present_mode == select_present_mode(details.present_modes)
        extent == select_swapchain_extent(details.capabilities, window, debug_build)
        image_count == swapchain_image_count(details.capabilities, debug_build)
    IN IF surface_format.kind = "panic" THEN surface_format
       ELSE IF extent.kind = "panic" THEN extent
       ELSE IF image_count.kind = "panic" THEN image_count
       ELSE Ok([min_image_count |-> image_count.value,
                image_format |-> surface_format.value.format,
                image_color_space |-> surface_format.value.color_space,
                image_extent |-> extent.value,
                image_sharing_mode |-> "EXCLUSIVE",
                queue_family_indices |-> <<>>,
                present_mode |-> present_mode])

\* create_swapchain_entities up to the SwapchainCreateInfoKHR it builds; the
\* first panic on the way wins.
swapchain_create_info(details, queue_family_indices, window, debug_build) ==
    LET surface_format == select_surface_format(details.formats)
        present_mode == select_present_mode(details.present_modes)
        extent == select_swapchain_extent(details.capabilities, window, debug_build)
        image_count == swapchain_image_count(details.capabilities, debug_build)
        sharing == swapchain_sharing(queue_family_indices)
    IN IF surface_format.kind = "panic" THEN surface_format
       ELSE IF extent.kind = "panic" THEN extent
       ELSE IF image_count.kind = "panic" THEN image_count
       ELSE IF sharing.kind = "panic" THEN sharing
       ELSE Ok([min_image_count |-> image_count.value,
                image_format |-> surface_format.value.format,
                image_color_space |-> surface_format.value.color_space,
                image_extent |-> extent.value,
                image_sharing_mode |-> sharing.value.image_sharing_mode,
                queue_family_indices |-> sharing.value.queue_family_indices,
                present_mode |-> present_mode])

---------------------------------------------------------------------------
(* instance.rs *)

\* (mutant) any enumerated layer counts as the required one
is_validation_layer_supported_any(layer_properties, validation_info) ==
    \E r \in 1..Len(validation_info.required_validation_layers) :
        \E l \in 1..Len(layer_properties) : TRUE

\* layer_found is set as soon as one required layer is among the enumerated
\* ones, and never reset.
is_validation_layer_supported(layer_properties, validation_info) ==
    \E r \in 1..Len(validation_info.required_validation_layers) :
        \E l \in 1..Len(layer_properties) :
            validation_info.required_validation_layers[r] = vk_to_string(layer_properties[l])

---------------------------------------------------------------------------
(* What the driver can report *)

QueueFlagSets == {{"GRAPHICS", "COMPUTE", "TRANSFER"}, {"COMPUTE", "TRANSFER"}, {"TRANSFER"}}

QueueFamilies ==
    [queue_count : {0, 1}, queue_flags : QueueFlagSets, present_support : BOOLEAN]

FamilyLists == SeqsUpTo(QueueFamilies, MaxFamilies)

RawSwapchain == <<"VK_KHR_swapchain", NUL, NUL>>
RawSwapchainStale == <<"VK_KHR_swapchain", NUL, "x">>
RawSwapchainMutable == <<"VK_KHR_swapchain", "_mutable_format", NUL>>
RawMaintenance == <<"VK_KHR_maintenance1", NUL, NUL>>

OtherFormat == [format |-> "B8G8R8A8_UNORM", color_space |-> "SRGB_NONLINEAR"]

\* A device with the given queue families and everything else in order.
DeviceWith(queue_families) ==
    [queue_families |-> queue_families,
     extension_properties |-> <<RawMaintenance, RawSwapchain>>,
     formats |-> <<OtherFormat>>,
     present_modes |-> <<"FIFO">>]

ScanDevices == {DeviceWith(f) : f \in FamilyLists}

FamBoth == [queue_count |-> 1, queue_flags |-> {"GRAPHICS", "COMPUTE", "TRANSFER"},
            present_support |-> TRUE]
FamGraphics == [queue_count |-> 1, queue_flags |-> {"GRAPHICS", "COMPUTE", "TRANSFER"},
                present_support |-> FALSE]
FamPresent == [queue_count |-> 1, queue_flags |-> {"TRANSFER"}, present_support |-> TRUE]
FamEmpty == [queue_count |-> 0, queue_flags |-> {"GRAPHICS", "COMPUTE", "TRANSFER"},
             present_support |-> TRUE]

\* The devices select_physical_device is run on: every way of passing or
\* failing each of the three predicates.
SelFamilyLists == {<<FamBoth>>, <<FamGraphics, FamPresent>>, <<FamGraphics>>, <<FamEmpty>>}
SelExtensionLists ==
    {<<RawMaintenance, RawSwapchainStale>>, <<RawMaintenance>>, <<RawSwapchainMutable>>}
SelSurfaces ==
    {[formats |-> <<OtherFormat>>, present_modes |-> <<"FIFO">>],
     [formats |-> <<>>, present_modes |-> <<"FIFO">>],
     [formats |-> <<OtherFormat>>, present_modes |-> <<>>]}

SelDevices ==
    {[queue_families |-> f, extension_properties |-> e,
      formats |-> s.formats, present_modes |-> s.present_modes] :
        f \in SelFamilyLists, e \in SelExtensionLists, s \in SelSurfaces}

Dims == (1..MaxDim) \cup {U32_MAX}
Extents == [width : Dims, height : Dims]

\* Surface capabilities as far as extent selection reads them; the extent
\* bounds are ordered, as the driver reports them.
ExtentCapabilities ==
    {c \in [current_extent : Extents, min_image_extent : Extents,
            max_image_extent : Extents] :
        /\ c.min_image_extent.width <= c.max_image_extent.width
        /\ c.min_image_extent.height <= c.max_image_extent.height}

RawValidation == <<"VK_LAYER_KHRONOS_validation", NUL, NUL>>
RawValidationStale == <<"VK_LAYER_KHRONOS_validation", NUL, "x">>
RawApiDump == <<"VK_LAYER_LUNARG_api_dump", NUL, NUL>>
RawLayers == {RawValidation, RawValidationStale, RawApiDump}

\* ValidationInfo holds exactly one required layer name: [&'static str; 1].
ValidationInfos ==
    [is_enabled : BOOLEAN,
     required_validation_layers :
        {REQUIRED_VALIDATION_LAYERS, <<Str("VK_LAYER_LUNARG_api_dump")>>}]

---------------------------------------------------------------------------
(* Initial states: one entry point, one input *)

\* what a surface can advertise to the two selection policies
SurfaceFormats ==
    { PreferredFormat,
      OtherFormat,
      [format |-> "B8G8R8_SRGB", color_space |-> "EXTENDED_SRGB_LINEAR_EXT"],
      [format |-> "B8G8R8A8_SRGB", color_space |-> "SRGB_NONLINEAR"] }

PresentModes == {"IMMEDIATE", "MAILBOX", "FIFO", "FIFO_RELAXED"}

NoLocals == <<>>

Call(e, a) ==
    /\ entry = e
    /\ pc = "start"
    /\ args = a
    /\ locals = NoLocals
    /\ live = {}
    /\ trace = <<>>
    /\ result = NoResult

Return(r) ==
    /\ pc' = "returned"
    /\ result' = r

InitFindQueueFamily ==
    \E d \in ScanDevices : Call("find_queue_family", [physical_device |-> d])

InitCreateLogicalDevice ==
    \E d \in ScanDevices : Call("create_logical_device", [physical_device |-> d])

InitSelectPhysicalDevice ==
    \E ds \in SeqsUpTo(SelDevices, MaxDevices) :
        Call("select_physical_device", [physical_devices |-> ds])

InitSelectSwapchainExtent ==
    \E c \in ExtentCapabilities, w \in Extents, b \in BOOLEAN :
        Call("select_swapchain_extent",
             [capabilities |-> c, window |-> w, debug_build |-> b])

InitCreateInstance ==
    \E v \in ValidationInfos, l \in SeqsUpTo(RawLayers, MaxLayers) :
        Call("create_instance", [validation_info |-> v, layer_properties |-> l])

---------------------------------------------------------------------------
(* device.rs *)

FindQueueFamily ==
    /\ entry = "find_queue_family" /\ pc = "start"
    /\ Return(Ok(find_queue_family(args.physical_device)))
    /\ UNCHANGED <<entry, args, locals, live, trace>>

SelectPhysicalDevice ==
    /\ entry = "select_physical_device" /\ pc = "start"
    /\ Return(select_physical_device(args.physical_devices))
    /\ UNCHANGED <<entry, args, locals, live, trace>>

\* The DeviceQueueCreateInfo list create_logical_device hands to create_device
device_queue_create_infos(queue_family_indices) ==
    <<[queue_family_index |-> queue_family_indices.graphics_family_index.v,
       queue_priorities |-> <<"1.0">>]>>

CreateLogicalDevice ==
    /\ entry = "create_logical_device" /\ pc = "start"
    /\ LET queue_family_indices == find_queue_family(args.physical_device)
       IN IF ~queue_family_indices.graphics_family_index.some
          THEN /\ Return(Panic("called Option::unwrap() on a None value"))
               /\ locals' = [queue_family_indices |-> queue_family_indices,
                             queue_create_infos |-> <<>>]
               /\ UNCHANGED <<live, trace>>
          ELSE /\ locals' = [queue_family_indices |-> queue_family_indices,
                             queue_create_infos |->
                                 device_queue_create_infos(queue_family_indices)]
               /\ \/ /\ live' = live \cup {H("device")}
                     /\ trace' = Append(trace, Created(H("device")))
                     /\ Return(Ok([device |-> H("device"),
                                   queue_family_indices |-> queue_family_indices]))
                  \/ /\ trace' = Append(trace, CreateFailed(H("device")))
                     /\ Return(Err("create_device"))
                     /\ UNCHANGED live
    /\ UNCHANGED <<entry, args>>

---------------------------------------------------------------------------
(* swapchain.rs *)

SelectSwapchainExtent ==
    /\ entry = "select_swapchain_extent" /\ pc = "start"
    /\ Return(select_swapchain_extent(args.capabilities, args.window, args.debug_build))
    /\ UNCHANGED <<entry, args, locals, live, trace>>

---------------------------------------------------------------------------
(* instance.rs *)

CreateInstance ==
    /\ entry = "create_instance" /\ pc = "start"
    /\ IF /\ args.validation_info.is_enabled
          /\ ~is_validation_layer_supported(args.layer_properties, args.validation_info)
       THEN /\ Return(Panic("Validation layers requested, but not available!"))
            /\ UNCHANGED <<locals, live, trace>>
       ELSE /\ locals' =
                [create_info |->
                    [p_next_debug_messenger |-> args.validation_info.is_enabled,
                     enabled_layer_names |->
                        IF args.validation_info.is_enabled
                        THEN args.validation_info.required_validation_layers
                        ELSE <<>>]]
            /\ \/ /\ live' = live \cup {H("instance")}
                  /\ trace' = Append(trace, Created(H("instance")))
                  /\ Return(Ok(H("instance")))
               \/ /\ trace' = Append(trace, CreateFailed(H("instance")))
                  /\ Return(Panic("Error creating instance"))
                  /\ UNCHANGED live
    /\ UNCHANGED <<entry, args>>

---------------------------------------------------------------------------
(* swapchain.rs: create_swapchain *)

ImageCounts == 0..MaxImageCount

QueueFamilyOptions == {None} \cup {Some(i) : i \in 0..(MaxFamilies - 1)}

DefinedExtent == [width |-> 2, height |-> 1]
UndefinedExtent == [width |-> U32_MAX, height |-> U32_MAX]

SwapchainCapabilities ==
    [min_image_count : ImageCounts,
     max_image_count : ImageCounts,
     current_extent : {DefinedExtent, UndefinedExtent},
     min_image_extent : {[width |-> 1, height |-> 1]},
     max_image_extent : {[width |-> MaxDim, height |-> MaxDim]}]

SwapchainSupportDetails ==
    [capabilities : SwapchainCapabilities,
     formats : {<<>>, <<OtherFormat, PreferredFormat>>},
     present_modes : {<<"FIFO">>, <<"IMMEDIATE", "MAILBOX">>}]

InitCreateSwapchain ==
    \E d \in SwapchainSupportDetails,
       q \in [graphics_family_index : QueueFamilyOptions,
              present_family_index : QueueFamilyOptions],
       b \in BOOLEAN,
       n \in 0..MaxImages :
        Call("create_swapchain",
             [details |-> d, queue_family_indices |-> q,
              window |-> [width |-> 1, height |-> 2],
              debug_build |-> b,
              driver_images |-> [i \in 1..n |-> Handle("image", i)]])

\* create_swapchain_entities, called from create_swapchain
CreateSwapchainEntities ==
    /\ entry = "create_swapchain" /\ pc = "start"
    /\ LET info == swapchain_create_info(args.details, args.queue_family_indices,
                                         args.window, args.debug_build)
       IN \/ /\ Return(Err("get_swapchain_support_details"))
             /\ locals' = [swapchain_create_info |-> NoResult]
             /\ UNCHANGED <<live, trace>>
          \/ /\ info.kind = "panic"
             /\ Return(info)
             /\ locals' = [swapchain_create_info |-> info]
             /\ UNCHANGED <<live, trace>>
          \/ /\ info.kind = "Ok"
             /\ Return(Err("create_swapchain"))
             /\ locals' = [swapchain_create_info |-> info]
             /\ trace' = Append(trace, CreateFailed(H("swapchain")))
             /\ UNCHANGED live
          \/ /\ info.kind = "Ok"
             /\ Return(Err("get_swapchain_images"))
             /\ locals' = [swapchain_create_info |-> info]
             /\ trace' = Append(trace, Created(H("swapchain")))
             /\ live' = live \cup {H("swapchain")}
          \/ /\ info.kind = "Ok"
             /\ pc' = "image_views"
             /\ locals' = [swapchain_create_info |-> info,
                           swapchain_entities |->
                               [swapchain |-> H("swapchain"),
                                swapchain_images |-> args.driver_images,
                                swapchain_format |-> info.value.image_format,
                                swapchain_extent |-> info.value.image_extent],
                           image_views |-> <<>>]
             /\ trace' = Append(trace, Created(H("swapchain")))
             /\ live' = live \cup {H("swapchain")}
             /\ UNCHANGED result
    /\ UNCHANGED <<entry, args>>

\* (mutant) each new view is put in front of the earlier ones
CreateImageView_push_front ==
    /\ entry = "create_swapchain" /\ pc = "image_views"
    /\ Len(locals.image_views) < Len(locals.swapchain_entities.swapchain_images)
    /\ LET i == Len(locals.image_views) + 1
           image == locals.swapchain_entities.swapchain_images[i]
           view == [type |-> "image_view", id |-> i, image |-> image,
                    format |-> locals.swapchain_entities.swapchain_format]
       IN \/ /\ locals' = [locals EXCEPT !.image_views = <<view>> \o @]
             /\ trace' = Append(trace, Created(view))
             /\ live' = live \cup {view}
             /\ UNCHANGED <<pc, result>>
          \/ /\ trace' = Append(trace, CreateFailed(view))
             /\ Return(Err("create_image_view"))
             /\ UNCHANGED <<locals, live>>
    /\ UNCHANGED <<entry, args>>

\* One turn of the loop of create_swapchain_image_views
CreateImageView ==
    /\ entry = "create_swapchain" /\ pc = "image_views"
    /\ Len(locals.image_views) < Len(locals.swapchain_entities.swapchain_images)
    /\ LET i == Len(locals.image_views) + 1
           image == locals.swapchain_entities.swapchain_images[i]
           view == [type |-> "image_view", id |-> i, image |-> image,
                    format |-> locals.swapchain_entities.swapchain_format]
       IN \/ /\ locals' = [locals EXCEPT !.image_views = Append(@, view)]
             /\ trace' = Append(trace, Created(view))
             /\ live' = live \cup {view}
             /\ UNCHANGED <<pc, result>>
          \/ /\ trace' = Append(trace, CreateFailed(view))
             /\ Return(Err("create_image_view"))
             /\ UNCHANGED <<locals, live>>
    /\ UNCHANGED <<entry, args>>

CreateSwapchainReturn ==
    /\ entry = "create_swapchain" /\ pc = "image_views"
    /\ Len(locals.image_views) = Len(locals.swapchain_entities.swapchain_images)
    /\ Return(Ok([swapchain_entities |-> locals.swapchain_entities,
                  swapchain_image_views |-> locals.image_views]))
    /\ UNCHANGED <<entry, args, locals, live, trace>>

---------------------------------------------------------------------------
(* main.rs: main.  Each step is one call of main, with the line it is on,  *)
(* how it can fail ("err": the ? returns the error; "panic": an unwrap;    *)
(* "none": it returns nothing that is checked), and the handles it creates *)
(* and destroys.  Destroying a command pool frees its command buffers.     *)

Step(line, op, fail, creates, destroys) ==
    [line |-> line, op |-> op, fail |-> fail, creates |-> creates, destroys |-> destroys]

MainSteps == <<
    Step(38, "Entry::load", "err", <<>>, <<>>),
    Step(39, "create_instance", "panic", <<H("instance")>>, <<>>),
    Step(56, "create_debug_utils_messenger", "err", <<H("debug_messenger")>>, <<>>),
    Step(58, "create_physical_device", "err", <<>>, <<>>),
    Step(59, "create_device", "panic", <<H("device")>>, <<>>),
    Step(61, "get_queue_from_device", "none", <<>>, <<>>),
    Step(64, "Allocator::new", "err", <<H("allocator")>>, <<>>),
    Step(79, "create_buffer", "err", <<H("buffer")>>, <<>>),
    Step(80, "get_buffer_memory_requirements", "none", <<>>, <<>>),
    Step(81, "allocator.allocate", "err", <<H("allocation")>>, <<>>),
    Step(88, "bind_buffer_memory", "err", <<>>, <<>>),
    Step(92, "create_command_pool", "err", <<H("command_pool")>>, <<>>),
    Step(93, "allocate_command_buffer", "err", <<H("command_buffer")>>, <<>>),
    Step(96, "begin_command_buffer", "err", <<>>, <<>>),
    Step(98, "cmd_fill_buffer", "none", <<>>, <<>>),
    Step(106, "end_command_buffer", "err", <<>>, <<>>),
    Step(110, "create_fence", "err", <<H("fence")>>, <<>>),
    Step(115, "queue_submit", "err", <<>>, <<>>),
    Step(118, "wait_for_fences", "err", <<>>, <<>>),
    Step(120, "mapped_slice", "err", <<>>, <<>>),
    Step(126, "destroy_debug_utils_messenger", "none", <<>>, <<H("debug_messenger")>>),
    Step(127, "destroy_fence", "none", <<>>, <<H("fence")>>),
    Step(128, "destroy_command_pool", "none", <<>>,
         <<H("command_buffer"), H("command_pool")>>),
    Step(129, "allocator.free", "err", <<>>, <<H("allocation")>>),
    Step(130, "destroy_buffer", "none", <<>>, <<H("buffer")>>),
    Step(131, "destroy_device", "none", <<>>, <<H("device")>>),
    Step(132, "destroy_instance", "none", <<>>, <<H("instance")>>) >>

InitMain ==
    /\ entry = "main"
    /\ pc = "body"
    /\ args = <<>>
    /\ locals = [ip |-> 1, failed |-> NoResult]
    /\ live = {}
    /\ trace = <<>>
    /\ result = NoResult

MainStep ==
    /\ entry = "main" /\ pc = "body" /\ locals.ip <= Len(MainSteps)
    /\ LET step == MainSteps[locals.ip]
       IN /\ live' = (live \cup Range(step.creates)) \ Range(step.destroys)
          /\ trace' = trace
                \o [i \in 1..Len(step.creates) |-> Created(step.creates[i])]
                \o [i \in 1..Len(step.destroys) |-> Destroyed(step.destroys[i])]
    /\ locals' = [locals EXCEPT !.ip = @ + 1]
    /\ UNCHANGED <<entry, pc, args, result>>

MainStepFails ==
    /\ entry = "main" /\ pc = "body" /\ locals.ip <= Len(MainSteps)
    /\ LET step == MainSteps[locals.ip]
       IN /\ step.fail # "none"
          /\ trace' = trace \o [i \in 1..Len(step.creates) |-> CreateFailed(step.creates[i])]
          /\ locals' = [locals EXCEPT !.failed = IF step.fail = "panic" THEN Panic(step.op)
                                                 ELSE Err(step.op)]
    /\ pc' = "exit"
    /\ UNCHANGED <<entry, args, live, result>>

\* Ok(()) on line 134
MainOk ==
    /\ entry = "main" /\ pc = "body" /\ locals.ip = Len(MainSteps) + 1
    /\ pc' = "exit"
    /\ locals' = [locals EXCEPT !.failed = Ok(<<>>)]
    /\ UNCHANGED <<entry, args, live, trace, result>>

\* Leaving main's scope drops its locals; the allocator is the one that owns
\* device objects (the ash handles have no Drop).
MainScopeExit ==
    /\ entry = "main" /\ pc = "exit"
    /\ IF H("allocator") \in live
       THEN /\ live' = live \ {H("allocator")}
            /\ trace' = Append(trace, Destroyed(H("allocator")))
       ELSE UNCHANGED <<live, trace>>
    /\ Return(locals.failed)
    /\ UNCHANGED <<entry, args, locals>>

InitSelectSurfaceFormat ==
    \E fs \in SeqsUpTo(SurfaceFormats, MaxFormats) :
        Call("select_surface_format", [available_formats |-> fs])

InitSelectPresentMode ==
    \E ms \in SeqsUpTo(PresentModes, MaxModes) :
        Call("select_present_mode", [present_modes |-> ms])

SelectSurfaceFormat ==
    /\ entry = "select_surface_format" /\ pc = "start"
    /\ Return(select_surface_format(args.available_formats))
    /\ UNCHANGED <<entry, args, locals, live, trace>>

SelectPresentMode ==
    /\ entry = "select_present_mode" /\ pc = "start"
    /\ Return(Ok(select_present_mode(args.present_modes)))
    /\ UNCHANGED <<entry, args, locals, live, trace>>

(* pipeline.rs: create_graphics_pipeline, one step per fallible or       *)
(* handle-changing call, in source order                                   *)

PipelineSteps_destroy_before_build == <<
    Step(28, "load_file_bytes(vert-shader.spv)", "panic", <<>>, <<>>),
    Step(30, "load_file_bytes(frag-shader.spv)", "panic", <<>>, <<>>),
    Step(32, "read_spv(vertex)", "err", <<>>, <<>>),
    Step(33, "read_spv(fragment)", "err", <<>>, <<>>),
    Step(35, "create_shader_module(vertex)", "err", <<H("vertex_shader_module")>>, <<>>),
    Step(36, "create_shader_module(fragment)", "err", <<H("fragment_shader_module")>>, <<>>),
    Step(78, "create_pipeline_layout", "err", <<H("pipeline_layout")>>, <<>>),
    Step(103, "destroy_shader_module(vertex)", "none", <<>>, <<H("vertex_shader_module")>>),
    Step(104, "destroy_shader_module(fragment)", "none", <<>>,
         <<H("fragment_shader_module")>>),
    Step(94, "create_graphics_pipelines", "panic", <<H("pipeline")>>, <<>>) >>

PipelineSteps == <<
    Step(28, "load_file_bytes(vert-shader.spv)", "panic", <<>>, <<>>),
    Step(30, "load_file_bytes(frag-shader.spv)", "panic", <<>>, <<>>),
    Step(32, "read_spv(vertex)", "err", <<>>, <<>>),
    Step(33, "read_spv(fragment)", "err", <<>>, <<>>),
    Step(35, "create_shader_module(vertex)", "err", <<H("vertex_shader_module")>>, <<>>),
    Step(36, "create_shader_module(fragment)", "err", <<H("fragment_shader_module")>>, <<>>),
    Step(78, "create_pipeline_layout", "err", <<H("pipeline_layout")>>, <<>>),
    Step(94, "create_graphics_pipelines", "panic", <<H("pipeline")>>, <<>>),
    Step(103, "destroy_shader_module(vertex)", "none", <<>>, <<H("vertex_shader_module")>>),
    Step(104, "destroy_shader_module(fragment)", "none", <<>>,
         <<H("fragment_shader_module")>>) >>

InitCreateGraphicsPipeline ==
    /\ entry = "create_graphics_pipeline"
    /\ pc = "body"
    /\ args = <<>>
    /\ locals = [ip |-> 1]
    /\ live = {}
    /\ trace = <<>>
    /\ result = NoResult

PipelineStep ==
    /\ entry = "create_graphics_pipeline" /\ pc = "body"
    /\ locals.ip <= Len(PipelineSteps)
    /\ LET step == PipelineSteps[locals.ip]
       IN /\ live' = (live \cup Range(step.creates)) \ Range(step.destroys)
          /\ trace' = trace
                \o [i \in 1..Len(step.creates) |-> Created(step.creates[i])]
                \o [i \in 1..Len(step.destroys) |-> Destroyed(step.destroys[i])]
    /\ locals' = [locals EXCEPT !.ip = @ + 1]
    /\ UNCHANGED <<entry, pc, args, result>>

\* `?` returns the error and .unwrap()/.expect() unwinds; either way the
\* function is left at once and none of its locals has a Drop that frees a
\* device object
PipelineStepFails ==
    /\ entry = "create_graphics_pipeline" /\ pc = "body"
    /\ locals.ip <= Len(PipelineSteps)
    /\ LET step == PipelineSteps[locals.ip]
       IN /\ step.fail # "none"
          /\ trace' = trace \o [i \in 1..Len(step.creates) |-> CreateFailed(step.creates[i])]
          /\ Return(IF step.fail = "panic" THEN Panic(step.op) ELSE Err(step.op))
    /\ UNCHANGED <<entry, args, locals, live>>

\* Ok((pipelines[0], pipeline_layout)) on line 107
PipelineOk ==
    /\ entry = "create_graphics_pipeline" /\ pc = "body"
    /\ locals.ip = Len(PipelineSteps) + 1
    /\ Return(Ok([pipeline |-> H("pipeline"), pipeline_layout |-> H("pipeline_layout")]))
    /\ UNCHANGED <<entry, args, locals, live, trace>>

(* The bring-up chain: the device select_physical_device returns is handed  *)
(* to create_logical_device, and the QueueFamilyIndices that returns are    *)
(* handed, with the same device and surface, to create_swapchain_entities.  *)
(* The driver's facts about a device are the same at every query.           *)

BringUpCapabilities ==
    [min_image_count |-> 1,
     max_image_count |-> 2,
     current_extent |-> DefinedExtent,
     min_image_extent |-> [width |-> 1, height |-> 1],
     max_image_extent |-> [width |-> 2, height |-> 2]]

NoBringUpLocals ==
    [selected |-> 0, physical_device |-> <<>>, queue_family_indices |-> QueueFamilyIndices_new]

InitBringUp ==
    /\ entry = "bring_up"
    /\ pc = "select_physical_device"
    /\ \E ds \in SeqsUpTo(SelDevices, MaxDevices) :
          args = [physical_devices |-> ds,
                  capabilities |-> BringUpCapabilities,
                  window |-> [width |-> 1, height |-> 2],
                  debug_build |-> TRUE]
    /\ locals = NoBringUpLocals
    /\ live = {}
    /\ trace = <<>>
    /\ result = NoResult

BringUpSelectPhysicalDevice ==
    /\ entry = "bring_up" /\ pc = "select_physical_device"
    /\ LET selected == select_physical_device(args.physical_devices)
       IN IF selected.kind = "Ok"
          THEN /\ locals' = [locals EXCEPT
                                !.selected = selected.value,
                                !.physical_device = args.physical_devices[selected.value]]
               /\ pc' = "create_logical_device"
               /\ UNCHANGED result
          ELSE /\ Return(selected)
               /\ UNCHANGED locals
    /\ UNCHANGED <<entry, args, live, trace>>

BringUpCreateLogicalDevice ==
    /\ entry = "bring_up" /\ pc = "create_logical_device"
    /\ LET queue_family_indices == find_queue_family(locals.physical_device)
       IN /\ locals' = [locals EXCEPT !.queue_family_indices = queue_family_indices]
          /\ IF ~queue_family_indices.graphics_family_index.some
             THEN /\ Return(Panic("called Option::unwrap() on a None value"))
                  /\ UNCHANGED <<live, trace>>
             ELSE \/ /\ live' = live \cup {H("device")}
                     /\ trace' = Append(trace, Created(H("device")))
                     /\ pc' = "create_swapchain_entities"
                     /\ UNCHANGED result
                  \/ /\ trace' = Append(trace, CreateFailed(H("device")))
                     /\ Return(Err("create_device"))
                     /\ UNCHANGED live
    /\ UNCHANGED <<entry, args>>

BringUpCreateSwapchainEntities ==
    /\ entry = "bring_up" /\ pc = "create_swapchain_entities"
    /\ LET details == [capabilities |-> args.capabilities,
                       formats |-> locals.physical_device.formats,
                       present_modes |-> locals.physical_device.present_modes]
           info == swapchain_create_info(details, locals.queue_family_indices,
                                         args.window, args.debug_build)
       IN IF info.kind = "panic"
          THEN /\ Return(info)
               /\ UNCHANGED <<live, trace>>
          ELSE \/ /\ live' = live \cup {H("swapchain")}
                  /\ trace' = Append(trace, Created(H("swapchain")))
                  /\ Return(info)
               \/ /\ trace' = Append(trace, CreateFailed(H("swapchain")))
                  /\ Return(Err("create_swapchain"))
                  /\ UNCHANGED live
    /\ UNCHANGED <<entry, args, locals>>

---------------------------------------------------------------------------

Init ==
    \/ InitMain
    \/ InitCreateSwapchain
    \/ InitFindQueueFamily
    \/ InitCreateLogicalDevice
    \/ InitSelectPhysicalDevice
    \/ InitSelectSwapchainExtent
    \/ InitCreateInstance
    \/ InitSelectSurfaceFormat
    \/ InitSelectPresentMode
    \/ InitCreateGraphicsPipeline
    \/ InitBringUp

Next ==
    \/ MainStep
    \/ MainStepFails
    \/ MainOk
    \/ MainScopeExit
    \/ CreateSwapchainEntities
    \/ CreateImageView
    \/ CreateSwapchainReturn
    \/ FindQueueFamily
    \/ SelectPhysicalDevice
    \/ CreateLogicalDevice
    \/ SelectSwapchainExtent
    \/ CreateInstance
    \/ SelectSurfaceFormat
    \/ SelectPresentMode
    \/ PipelineStep
    \/ PipelineStepFails
    \/ PipelineOk
    \/ BringUpSelectPhysicalDevice
    \/ BringUpCreateLogicalDevice
    \/ BringUpCreateSwapchainEntities

Spec == Init /\ [][Next]_vars

---------------------------------------------------------------------------
(* Claims *)

Returned(e) == entry = e /\ pc = "returned"

Min(S) == CHOOSE x \in S : \A y \in S : x <= y

\* C1: when main runs to Ok, the handles are destroyed in exactly the reverse
\* of the order they were created in, and the debug messenger is destroyed
\* immediately before the instance.
C1_TeardownReversesCreation ==
    (Returned("main") /\ result.kind = "Ok") =>
        /\ destroyed = Reverse(created)
        /\ \E i \in 1..(Len(destroyed) - 1) :
              /\ destroyed[i] = H("debug_messenger")
              /\ destroyed[i + 1] = H("instance")

\* C2: when a step of main or of create_swapchain fails, every handle created
\* before it has been destroyed, exactly once, by the time the error is
\* returned.
C2_NoLeakOnFailure ==
    ((Returned("main") \/ Returned("create_swapchain")) /\ result.kind = "Err") =>
        /\ live = {}
        /\ \A h \in Range(created) : Count(destroyed, h) = 1

\* C3: a defined current extent is chosen as it is; an undefined one gives the
\* window extent clamped into [min_image_extent, max_image_extent], width
\* against the width bounds and height against the height bounds.
ClampedInto(x, lo, hi) == IF x < lo THEN lo ELSE IF x > hi THEN hi ELSE x

C3_ExtentSelection ==
    Returned("select_swapchain_extent") =>
        LET c == args.capabilities
        IN IF c.current_extent.width # U32_MAX
           THEN result = Ok(c.current_extent)
           ELSE result = Ok([width |-> ClampedInto(args.window.width,
                                                   c.min_image_extent.width,
                                                   c.max_image_extent.width),
                             height |-> ClampedInto(args.window.height,
                                                    c.min_image_extent.height,
                                                    c.max_image_extent.height)])

\* The create info create_swapchain_entities handed to the driver, once it has
\* made the creation call.
CreationCalled ==
    /\ entry = "create_swapchain"
    /\ pc # "start"
    /\ locals.swapchain_create_info.kind = "Ok"

\* C4: for capabilities with min_image_count <= max_image_count or
\* max_image_count = 0, the image count handed to swapchain creation lies in
\* [min_image_count, max_image_count] when max_image_count > 0 and is
\* min_image_count + 1 when max_image_count = 0.
C4_ImageCountInRange ==
    CreationCalled =>
        LET c == args.details.capabilities
            n == locals.swapchain_create_info.value.min_image_count
        IN (c.min_image_count <= c.max_image_count \/ c.max_image_count = 0) =>
              /\ c.max_image_count > 0 =>
                    (c.min_image_count <= n /\ n <= c.max_image_count)
              /\ c.max_image_count = 0 => n = c.min_image_count + 1

\* C5: create_logical_device asks for one queue per distinct required family:
\* one request when graphics and present resolve to the same family, two (one
\* for each index) when they differ, each for one queue of priority 1.0.
C5_OneRequestPerDistinctFamily ==
    (Returned("create_logical_device") /\ result.kind = "Ok") =>
        LET q == locals.queue_family_indices
            required == {q.graphics_family_index.v} \cup
                        (IF q.present_family_index.some
                         THEN {q.present_family_index.v} ELSE {})
            infos == locals.queue_create_infos
        IN /\ Len(infos) = Cardinality(required)
           /\ {infos[i].queue_family_index : i \in 1..Len(infos)} = required
           /\ \A i \in 1..Len(infos) : infos[i].queue_priorities = <<"1.0">>

\* C6: find_queue_family returns the lowest index of a family (with queues)
\* that has the GRAPHICS flag as graphics index, and the lowest index of a
\* family (with queues) that can present to the surface as present index.
FirstIndex(S) == IF S = {} THEN None ELSE Some(Min(S))

C6_FirstGraphicsFirstPresent ==
    Returned("find_queue_family") =>
        LET f == args.physical_device.queue_families
            usable == {i \in 0..(Len(f) - 1) : f[i + 1].queue_count > 0}
            graphics == {i \in usable : "GRAPHICS" \in f[i + 1].queue_flags}
            present == {i \in usable : f[i + 1].present_support}
        IN /\ result.value.graphics_family_index = FirstIndex(graphics)
           /\ result.value.present_family_index = FirstIndex(present)

\* The three predicates of device suitability, stated on the driver's facts.
Advertises(d, name) ==
    \E i \in 1..Len(d.extension_properties) : vk_to_string(d.extension_properties[i]) = name

QueueFamiliesComplete(d) ==
    /\ \E i \in 1..Len(d.queue_families) :
          d.queue_families[i].queue_count > 0 /\ "GRAPHICS" \in d.queue_families[i].queue_flags
    /\ \E i \in 1..Len(d.queue_families) :
          d.queue_families[i].queue_count > 0 /\ d.queue_families[i].present_support

Suitable(d) ==
    /\ QueueFamiliesComplete(d)
    /\ \A r \in 1..Len(REQUIRED_EXTENSIONS) : Advertises(d, REQUIRED_EXTENSIONS[r])
    /\ d.formats # <<>> /\ d.present_modes # <<>>

SuitablePositions == {i \in 1..Len(args.physical_devices) : Suitable(args.physical_devices[i])}

\* C7: select_physical_device returns the first enumerated device that passes
\* all three predicates, and the "no suitable device" error iff none does.
C7_FirstFit ==
    Returned("select_physical_device") =>
        /\ SuitablePositions # {} => result = Ok(Min(SuitablePositions))
        /\ SuitablePositions = {} <=> result = Err("No suitable supported device found")

C7_Witness ==
    /\ Returned("select_physical_device")
    /\ Len(args.physical_devices) = 2
    /\ SuitablePositions = {1, 2}
    /\ args.physical_devices[1] # args.physical_devices[2]
    /\ result = Ok(1)

\* C8: the device select_physical_device returns advertises every required
\* extension, whatever its queue families and its swapchain support.
C8_SelectedHasRequiredExtensions ==
    (Returned("select_physical_device") /\ result.kind = "Ok") =>
        \A r \in 1..Len(REQUIRED_EXTENSIONS) :
            Advertises(args.physical_devices[result.value], REQUIRED_EXTENSIONS[r])

C8_Witness ==
    /\ Returned("select_physical_device")
    /\ result = Ok(2)
    /\ LET d == args.physical_devices[1]
       IN /\ QueueFamiliesComplete(d)
          /\ d.formats # <<>> /\ d.present_modes # <<>>
          /\ ~Advertises(d, REQUIRED_EXTENSIONS[1])

\* C9: the swapchain is created with concurrent sharing iff the graphics family
\* index differs from the present family index, and then the family list is
\* [graphics, present]; otherwise sharing is exclusive and the list is empty.
C9_SharingMode ==
    CreationCalled =>
        LET q == args.queue_family_indices
            info == locals.swapchain_create_info.value
        IN /\ (info.image_sharing_mode = "CONCURRENT")
                <=> (q.graphics_family_index # q.present_family_index)
           /\ info.image_sharing_mode = "CONCURRENT" =>
                 info.queue_family_indices =
                     <<q.graphics_family_index.v, q.present_family_index.v>>
           /\ info.image_sharing_mode # "CONCURRENT" =>
                 /\ info.image_sharing_mode = "EXCLUSIVE"
                 /\ info.queue_family_indices = <<>>

C9_Witness ==
    /\ CreationCalled
    /\ H("swapchain") \in live
    /\ args.queue_family_indices.graphics_family_index = Some(0)
    /\ args.queue_family_indices.present_family_index = Some(1)
    /\ locals.swapchain_create_info.value.image_sharing_mode = "CONCURRENT"

\* C10: with validation enabled and a required layer missing from the
\* enumerated layers, create_instance dies before it calls the driver and no
\* instance exists; with validation disabled, or every required layer
\* enumerated, the layer check does not stop it.
LayerEnumerated(name) ==
    \E i \in 1..Len(args.layer_properties) : vk_to_string(args.layer_properties[i]) = name

RequiredLayerAbsent ==
    \E r \in 1..Len(args.validation_info.required_validation_layers) :
        ~LayerEnumerated(args.validation_info.required_validation_layers[r])

ValidationPanic == Panic("Validation layers requested, but not available!")

C10_ValidationFailFast ==
    Returned("create_instance") =>
        /\ (args.validation_info.is_enabled /\ RequiredLayerAbsent) =>
              (result = ValidationPanic /\ trace = <<>> /\ live = {})
        /\ (~args.validation_info.is_enabled \/ ~RequiredLayerAbsent) =>
              result # ValidationPanic

C10_Witness ==
    /\ Returned("create_instance")
    /\ args.validation_info.is_enabled
    /\ RequiredLayerAbsent
    /\ args.layer_properties # <<>>
    /\ result = ValidationPanic

IsPreferredFormat(f) == f.format = "B8G8R8_SRGB" /\ f.color_space = "SRGB_NONLINEAR"

PreferredPositions(fs) == {i \in 1..Len(fs) : IsPreferredFormat(fs[i])}

\* C11: over any non-empty advertised list, select_surface_format returns the
\* first entry that pairs B8G8R8_SRGB with SRGB_NONLINEAR when there is one,
\* and the first advertised entry otherwise.
C11_SurfaceFormatSelection ==
    (Returned("select_surface_format") /\ args.available_formats # <<>>) =>
        LET fs == args.available_formats
        IN result = Ok(IF PreferredPositions(fs) # {}
                       THEN fs[Min(PreferredPositions(fs))]
                       ELSE fs[1])

\* the preferred pair is advertised second, behind an entry that has the
\* preferred format with another colour space, and is the one returned
C11_Witness ==
    /\ Returned("select_surface_format")
    /\ Len(args.available_formats) = 2
    /\ args.available_formats[1].format = "B8G8R8_SRGB"
    /\ ~IsPreferredFormat(args.available_formats[1])
    /\ IsPreferredFormat(args.available_formats[2])
    /\ result = Ok(args.available_formats[2])

\* C12: select_present_mode returns MAILBOX exactly when MAILBOX is somewhere
\* in the advertised list, whatever its position, and FIFO otherwise.
C12_PresentModeSelection ==
    Returned("select_present_mode") =>
        /\ result.kind = "Ok"
        /\ (result.value = "MAILBOX") <=> ("MAILBOX" \in Range(args.present_modes))
        /\ (result.value # "MAILBOX") => (result.value = "FIFO")

\* MAILBOX is advertised, not in first position, and is chosen
C12_Witness ==
    /\ Returned("select_present_mode")
    /\ Len(args.present_modes) = 2
    /\ args.present_modes[1] = "IMMEDIATE"
    /\ args.present_modes[2] = "MAILBOX"
    /\ result = Ok("MAILBOX")

PipelineFailed ==
    /\ Returned("create_graphics_pipeline")
    /\ result.kind \in {"Err", "panic"}

PipelineParts == {H("vertex_shader_module"), H("fragment_shader_module"), H("pipeline_layout")}

\* C13: when a creation call inside create_graphics_pipeline fails, no shader
\* module and no pipeline layout created by that call is still live once the
\* failure has left the function.
C13_NoPartialPipeline ==
    PipelineFailed => (live \cap PipelineParts = {})

PositionsOf(ev) == {i \in 1..Len(trace) : trace[i] = ev}

\* C14: on every successful return of create_graphics_pipeline each shader
\* module was created before the pipeline creation call and destroyed exactly
\* once, after that call.
C14_ShaderModulesTransient ==
    (Returned("create_graphics_pipeline") /\ result.kind = "Ok") =>
        /\ Cardinality(PositionsOf(Created(H("pipeline")))) = 1
        /\ \A m \in {H("vertex_shader_module"), H("fragment_shader_module")} :
              /\ \E c \in PositionsOf(Created(m)) :
                    \A p \in PositionsOf(Created(H("pipeline"))) : c < p
              /\ Cardinality(PositionsOf(Destroyed(m))) = 1
              /\ \A d \in PositionsOf(Destroyed(m)) :
                    \A p \in PositionsOf(Created(H("pipeline"))) : p < d
              /\ m \notin live

\* a successful return with the pipeline built and both modules gone
C14_Witness ==
    /\ Returned("create_graphics_pipeline")
    /\ result.kind = "Ok"
    /\ H("pipeline") \in live
    /\ Destroyed(H("fragment_shader_module")) \in Range(trace)

CreatedPositions(h) == {i \in 1..Len(created) : created[i] = h}

CreatedInOrder(hs) ==
    \E p \in [1..Len(hs) -> 1..Len(created)] :
        /\ \A i \in 1..Len(hs) : created[p[i]] = hs[i]
        /\ \A i \in 1..(Len(hs) - 1) : p[i] < p[i + 1]

\* C15: a start-up that runs to the end has created the instance first, then
\* the surface, then the logical device, then the swapchain, then the render
\* pass and the pipeline, in that order.
C15_AcquisitionOrder ==
    (Returned("main") /\ result.kind = "Ok") =>
        /\ created # <<>> /\ created[1] = H("instance")
        /\ CreatedInOrder(<<H("instance"), H("surface"), H("device"),
                            H("swapchain"), H("render_pass"), H("pipeline")>>)

GraphicsOnly(f) == f.queue_count > 0 /\ "GRAPHICS" \in f.queue_flags /\ ~f.present_support

PresentOnly(f) == f.queue_count > 0 /\ "GRAPHICS" \notin f.queue_flags /\ f.present_support

SplitFamilies(d) ==
    /\ Len(d.queue_families) = 2
    /\ GraphicsOnly(d.queue_families[1])
    /\ PresentOnly(d.queue_families[2])

SwapchainRequested ==
    /\ Returned("bring_up")
    /\ locals.selected # 0
    /\ Created(H("device")) \in Range(trace)

\* C16: for a device whose family 0 is graphics-only and whose family 1 is
\* present-only, queue-family resolution followed by swapchain negotiation
\* asks for concurrent sharing with the family list [0, 1].
C16_SplitFamiliesConcurrent ==
    (SwapchainRequested /\ SplitFamilies(locals.physical_device)) =>
        /\ result.kind # "panic"
        /\ locals.queue_family_indices =
              [graphics_family_index |-> Some(0), present_family_index |-> Some(1)]
        /\ (result.kind = "Ok") =>
              /\ result.value.image_sharing_mode = "CONCURRENT"
              /\ result.value.queue_family_indices = <<0, 1>>

\* the negotiation has run to a swapchain on such a device
C16_Witness ==
    /\ SwapchainRequested
    /\ SplitFamilies(locals.physical_device)
    /\ result.kind = "Ok"
    /\ H("swapchain") \in live

UnwrapPanic == Panic("called Option::unwrap() on a None value")

\* C19: with the driver's facts unchanged during the run, for the device
\* select_physical_device returned, create_logical_device does not panic on a
\* missing graphics family index and create_swapchain_entities does not panic
\* on an empty format list or on a missing index of the concurrent family list.
C19_DownstreamUnwrapsSafe ==
    (entry = "bring_up" /\ locals.selected # 0) =>
        /\ result # UnwrapPanic
        /\ locals.physical_device.formats # <<>>
        /\ pc \in {"create_swapchain_entities", "returned"} =>
              /\ locals.queue_family_indices.graphics_family_index.some
              /\ locals.queue_family_indices.present_family_index.some

\* the second enumerated device was the one selected, and both downstream
\* calls ran on it
C19_Witness ==
    /\ Returned("bring_up")
    /\ locals.selected = 2
    /\ result.kind = "Ok"
    /\ {H("device"), H("swapchain")} \subseteq live

SwapchainOk == Returned("create_swapchain") /\ result.kind = "Ok"

ChosenFormat(fs) ==
    IF PreferredPositions(fs) # {} THEN fs[Min(PreferredPositions(fs))].format
    ELSE fs[1].format

\* C18: on success create_swapchain returns exactly one image view per
\* swapchain image, in the order of the image list, each created with the
\* format chosen for the swapchain.
C18_OneViewPerImage ==
    SwapchainOk =>
        LET images == result.value.swapchain_entities.swapchain_images
            views == result.value.swapchain_image_views
        IN /\ images = args.driver_images
           /\ Len(views) = Len(images)
           /\ \A i \in 1..Len(views) :
                 /\ views[i].image = images[i]
                 /\ views[i].format = ChosenFormat(args.details.formats)
                 /\ Count(created, views[i]) = 1
           /\ Len(created) = 1 + Len(images)

\* a swapchain of two images came back with its two views
C18_Witness ==
    /\ SwapchainOk
    /\ Len(args.driver_images) = 2
    /\ Len(result.value.swapchain_image_views) = 2
    /\ result.value.swapchain_image_views[2].image = args.driver_images[2]

\* C20: a graphics index find_queue_family returns names a family of the
\* device that has queues and the GRAPHICS flag; a present index it returns
\* names a family of the device that has queues and can present to the
\* surface.
C20_ResolvedIndicesValid ==
    Returned("find_queue_family") =>
        LET families == args.physical_device.queue_families
            g == result.value.graphics_family_index
            p == result.value.present_family_index
        IN /\ g.some =>
                 /\ g.v >= 0 /\ g.v < Len(families)
                 /\ families[g.v + 1].queue_count > 0
                 /\ "GRAPHICS" \in families[g.v + 1].queue_flags
           /\ p.some =>
                 /\ p.v >= 0 /\ p.v < Len(families)
                 /\ families[p.v + 1].queue_count > 0
                 /\ families[p.v + 1].present_support

\* family 0 has the GRAPHICS flag and present support but no queues; the
\* indices resolved are those of family 1
C20_Witness ==
    /\ Returned("find_queue_family")
    /\ Len(args.physical_device.queue_families) = 2
    /\ args.physical_device.queue_families[1].queue_count = 0
    /\ "GRAPHICS" \in args.physical_device.queue_families[1].queue_flags
    /\ args.physical_device.queue_families[1].present_support
    /\ result.value.graphics_family_index = Some(1)
    /\ result.value.present_family_index = Some(1)

PresentModeChosen == Returned("select_present_mode") /\ result.kind = "Ok"

\* C21: for every non-empty advertised list, the present mode
\* select_present_mode returns is a member of that list.
C21_ChosenModeAdvertised ==
    (PresentModeChosen /\ args.present_modes # <<>>) =>
        result.value \in Range(args.present_modes)

\* C21 as the code has it: the mode returned is a member of the advertised
\* list exactly when the list holds MAILBOX or FIFO; on any other list the
\* result is FIFO although FIFO was not advertised.
C21_ChosenModeAdvertisedIffMailboxOrFifo ==
    PresentModeChosen =>
        /\ (result.value \in Range(args.present_modes))
              <=> ({"MAILBOX", "FIFO"} \cap Range(args.present_modes) # {})
        /\ (result.value \notin Range(args.present_modes)) => (result.value = "FIFO")

\* FIFO is advertised behind another mode, MAILBOX is not, and FIFO is chosen
C21_Witness ==
    /\ PresentModeChosen
    /\ args.present_modes = <<"IMMEDIATE", "FIFO">>
    /\ result.value = "FIFO"

DeviceObjects ==
    {H("allocator"), H("buffer"), H("allocation"), H("command_pool"),
     H("command_buffer"), H("fence")}

InstanceObjects == DeviceObjects \cup {H("device"), H("debug_messenger")}

NothingAfterDestroyOf(parent, children) ==
    \A i \in 1..Len(trace) : \A j \in (i + 1)..Len(trace) :
        (trace[i] = Destroyed(parent)) => (trace[j].h \notin children)

\* C22: in main nothing created from the logical device is released or used
\* once destroy_device has been called, and nothing created from the instance
\* once destroy_instance has been called.
C22_NoUseAfterDestroy ==
    (entry = "main") =>
        /\ NothingAfterDestroyOf(H("device"), DeviceObjects)
        /\ NothingAfterDestroyOf(H("instance"), InstanceObjects)

====
